---- MODULE Spec2Model ----
(***************************************************************************)
(* Model of the resumable chunked transfer engine of telegram-cloud-service *)
(*   client/uploader_bot.py  perform_upload  (the uploader main.py imports) *)
(*   client/uploader.py      perform_upload  (the generator-based uploader) *)
(*   client/downloader.py    perform_download, download_part_worker,        *)
(*                           join_files_here                                *)
(* Spec          : upload jobs of one owner and one source file, with       *)
(*                 process crashes and restarts.                            *)
(* SpecDownload  : one download job with its pool of part workers.          *)
(***************************************************************************)
EXTENDS Integers, Sequences, FiniteSets, TLC

\* ---------------------------------------------------------------- bounds
\* Sizes are counted in model bytes; ChunkSize stands for CHUNK_SIZE (19 MiB).
MaxFileSize == 5
ChunkSize == 2
\* perform_upload is invoked at most MaxRuns times in one behaviour.
MaxRuns == 3
\* A download manifest declares at most MaxDlParts parts.
MaxDlParts == 2
\* A rate-limit answer carries retry_after in 1..MaxRetryAfter.
MaxRetryAfter == 2
\* Other parties write the manifest file at most MaxExt times.
MaxExt == 2
\* A download's manifest holds at most MaxPoolParts locators in the thread
\* pool model.
MaxPoolParts == 37
\* The bot writes at most MaxCmds task descriptors.
MaxCmds == 3
\* The clock of the reset handlers runs to MaxTime in steps of TickLen seconds.
MaxTime == 140
TickLen == 20

\* ------------------------------------------------------ program constants
BOT_UPLOAD_RETRIES == 5
UPLOAD_RETRIES == 10
DOWNLOAD_RETRIES == 5
CONCURRENT_DOWNLOADS == 35
\* time.sleep(5) after a failed attempt, time.sleep(1) after a part
ERROR_DELAY == 5
INTER_PART_DELAY == 1
\* delay = 3 and delay *= 2 in download_part_worker
INITIAL_DELAY == 3
BACKOFF_FACTOR == 2
\* time.sleep(60) in handle_reset
RESET_WINDOW == 60

VARIABLES
    \* ---- upload: environment
    impl,                   \* "uploader_bot" or "uploader": whose perform_upload runs
    fileExists,             \* os.path.exists(file_path)
    fileSize,               \* os.path.getsize(file_path)
    dbFile,                 \* the manifest file on disk
    tmpFile,                \* the file at path + ".tmp" (uploader_bot only)
    \* ---- upload: the running job (lost in a crash)
    pc,
    run,                    \* number of perform_upload invocations so far
    i,                      \* part index of the for loop
    attempt,                \* attempt index of the retry loop
    total_parts,
    start_part_index,
    uploaded_message_info,
    result,                 \* what perform_upload returned: "none", "true", "false"
    \* ---- upload: history of the running job
    calls,                  \* part indices handed to send_document, repeats collapsed
    exhausted,              \* parts whose every allowed attempt failed
    resume_prefix,          \* existing_data["messages"] when the job resumed, else << >>
    save_prev,              \* what a load returned when the last save began
    save_new,               \* the document the last save was given
    dbOther,                \* the manifest file's entries of other filenames: 0 none, else a version
    memOther,               \* the same entries in the job's user_files_db
    ext_other,              \* what the other parties last made of those entries
    hist,                   \* history and clock of the running job
    task,                   \* my_task["task"]: "upload" or "download"
    pl_pc,                  \* thread pool of a download: "idle", "open", "closed"
    pl_n,                   \* number of locators in messages
    future_to_part,         \* part index of the k-th submitted call
    pl_started,             \* submitted calls a pool thread has taken, in order
    pl_running,             \* calls executing now
    \* ---- the task queue file shared by the service bot and the client
    qFile,                  \* content of TASK_QUEUE_PATH
    qTmp,                   \* content of TASK_QUEUE_PATH + ".tmp"
    svc_pc,                 \* position of the bot's command handler
    svc_db,                 \* its tasks_db
    svc_h,                  \* where the file it opened for writing is now
    cl_pc,                  \* position of the client's polling loop
    cl_phase,               \* which save of the loop runs: "mark" or "pop"
    tasks_db,               \* the client's tasks_db
    cl_h,                   \* where the file it opened for writing is now
    next_id,                \* descriptors the bot has made so far
    invoked,                \* per descriptor: how often the engine was invoked
    qhist,                  \* history of the queue
    \* ---- the bot's /reset handlers for one user
    now,                    \* the time, in seconds
    user_state,             \* user_states.get(user_id): "none" or "awaiting"
    sleepers,               \* wake times of the handlers in time.sleep(60)
    pending_since,          \* when the confirmation that is pending was created
    rhist,                  \* history of the reset handlers
    \* ---- download
    dl_pc,
    messages,               \* file_info["messages"]: number of recorded locators
    dl_total_parts,         \* file_info["total_parts"]
    wstate,                 \* per part index: the worker's state
    wattempt,               \* per part index: the worker's attempt index
    wk,                     \* per part index: the worker's delay and what it did so far
    collected,              \* futures whose result the manager has taken
    results,                \* the results dict, as its keys in insertion order
    failed_parts,
    tempDir,                \* temp_download_dir exists
    partFiles,              \* part indices with a part file in temp_download_dir
    outFile,                \* the file at DOWNLOAD_FOLDER/name
    outBefore,              \* outFile when the job started
    joined,                 \* the parts_list handed to join_files_here
    joinCalled,
    dl_result,
    \* ---- splitter and joiner on file contents
    sp_pc,
    src_exists,             \* os.path.exists(file_path)
    src,                    \* the bytes of the source file
    sp_pos,                 \* read position of f in split_file
    parts_paths,            \* the part files written, as their bytes, in list order
    sp_total,               \* total_parts as split_file returns it
    sp_out                  \* the bytes of the file join_files_here wrote

upVars == <<impl, fileExists, fileSize, dbFile, tmpFile, pc, run, i, attempt,
            total_parts, start_part_index, uploaded_message_info, result,
            calls, exhausted, resume_prefix, save_prev, save_new,
            dbOther, memOther, ext_other, hist, task>>
dlVars == <<dl_pc, messages, dl_total_parts, wstate, wattempt, wk, collected, results,
            failed_parts, tempDir, partFiles, outFile, outBefore, joined,
            joinCalled, dl_result>>
spVars == <<sp_pc, src_exists, src, sp_pos, parts_paths, sp_total, sp_out>>
poolVars == <<pl_pc, pl_n, future_to_part, pl_started, pl_running>>
qVars == <<qFile, qTmp, svc_pc, svc_db, svc_h, cl_pc, cl_phase, tasks_db, cl_h,
           next_id, invoked, qhist>>
rsVars == <<now, user_state, sleepers, pending_since, rhist>>
auxVars == <<poolVars, qVars, rsVars>>
vars == <<upVars, dlVars, spVars, auxVars>>

\* No download has opened its thread pool.
PoolIdle ==
    /\ pl_pc = "idle"
    /\ pl_n = 0
    /\ future_to_part = << >>
    /\ pl_started = 0
    /\ pl_running = 0

Users == {"me", "other"}
Descriptors == 1..MaxCmds

\* No entry for a user in the task queue.
NoTask == [task |-> "none", status |-> "none", id |-> 0]
EmptyQueue == [u \in Users |-> NoTask]
QNoFile == [kind |-> "nofile", d |-> EmptyQueue]
\* A file opened with 'w' whose json.dump has not finished.
QPartial == [kind |-> "partial", d |-> EmptyQueue]
QDoc(d) == [kind |-> "doc", d |-> d]

\* load_json / load_json_db: {} when the file is missing or does not parse
LoadQueue(f) == IF f.kind = "doc" THEN f.d ELSE EmptyQueue

QHistInit ==
    [failed |-> {}, taken |-> 0, marked |-> 0, popped |-> FALSE,
     live |-> [u \in Users |-> 0], picked |-> "none", raced |-> FALSE]

\* Bot and client are idle and the task queue file does not exist.
QueueIdle ==
    /\ qFile = QNoFile
    /\ qTmp = QNoFile
    /\ svc_pc = "idle"
    /\ svc_db = EmptyQueue
    /\ svc_h = "tmp"
    /\ cl_pc = "poll"
    /\ cl_phase = "mark"
    /\ tasks_db = EmptyQueue
    /\ cl_h = "tmp"
    /\ next_id = 0
    /\ invoked = [k \in Descriptors |-> 0]
    /\ qhist = QHistInit

\* No /reset was received yet.
ResetIdle ==
    /\ now = 0
    /\ user_state = "none"
    /\ sleepers = {}
    /\ pending_since = -1
    /\ rhist = [deleted |-> 0, unconfirmed |-> FALSE, early |-> FALSE]

AuxIdle == PoolIdle /\ QueueIdle /\ ResetIdle

\* ------------------------------------------------------------- the store
\* A file is absent, holds a complete JSON document, or holds the beginning of
\* one (opened for writing and not yet fully written).
NoFile == [kind |-> "nofile", has |-> FALSE, messages |-> << >>, total_parts |-> 0]
Partial == [kind |-> "partial", has |-> FALSE, messages |-> << >>, total_parts |-> 0]
\* The document {}: no entry for the filename.
EmptyDb == [kind |-> "doc", has |-> FALSE, messages |-> << >>, total_parts |-> 0]
\* The document with user_files_db[original_filename] = {"messages": m, "total_parts": t, ...}
Doc(m, t) == [kind |-> "doc", has |-> TRUE, messages |-> m, total_parts |-> t]

\* load_json_db / load_upload_db: {} for a missing file and for a JSONDecodeError.
LoadDb(f) == IF f.kind = "doc" THEN f ELSE EmptyDb

CeilFloor(a, b) == a \div b
\* math.ceil(file_size / chunk_size)
Ceil(a, b) == (a + b - 1) \div b

\* The locator send_document returns for part p in run r.
Locator(p, r) == [part |-> p, run |-> r]

\* --------------------------------------------------------------- resume
NumPartsOnRecord(db) == IF db.has THEN Len(db.messages) ELSE 0

StartPartIndexNoResume(k, total) == 0
\* start_part_index after the automatic resume logic
StartPartIndex(k, total) == IF 0 < k /\ k < total THEN k ELSE 0

\* uploaded_message_info after the automatic resume logic
ResumeMessages(db, total) ==
    IF 0 < NumPartsOnRecord(db) /\ NumPartsOnRecord(db) < total
    THEN db.messages ELSE << >>

\* calls with part p appended, unless p is the part of the last call (a retry).
Called(p) == IF calls # << >> /\ calls[Len(calls)] = p THEN calls ELSE Append(calls, p)

Impls == {"uploader_bot", "uploader"}

\* The other filenames' entries a load of the manifest file returns.
LoadOther(f, o) == IF f.kind = "doc" THEN o ELSE 0

SourceNeverMissing(exists) == FALSE
\* if not os.path.exists(file_path)
SourceMissing(exists) == ~exists

EmptyFileIsError == "false"
\* what perform_upload returns when split_file returned no parts
EmptyFileResult == "true"

HandlerReraises == "raised"
\* except Exception around the part loop: return False
OuterHandler == "false"

RateLimitNotCounted(a) == a
\* the 429 branch ends and for attempt in range(5) goes to its next value
AfterRateLimit(a) == a + 1

SleepNot(n) == 0
\* time.sleep(retry_after)
SleepFor(n) == n

MoveLost(tmp, old) == old
\* shutil.move(temp_path, path): path holds what temp_path held
MoveResult(tmp, old) == tmp

HistInit ==
    [events |-> {}, db_at_start |-> <<NoFile, 0>>, last_error |-> "none",
     err_part |-> -1, owed |-> 0, slept |-> 0, crash_part |-> -1,
     crash_persisted |-> 0, restarted |-> FALSE, raced |-> FALSE]

\* hist when perform_upload is entered and does the things in ev.
StartHist(ev) ==
    LET again == pc = "idle" /\ hist.crash_part >= 0
    IN [hist EXCEPT !.events = ev, !.db_at_start = <<dbFile, dbOther>>,
                    !.last_error = "none", !.err_part = -1, !.owed = 0, !.slept = 0,
                    !.restarted = again,
                    !.crash_part = IF again THEN @ ELSE -1]

\* hist when send_document for part p was answered: kind "none" for a message,
\* else the error; o the retry_after owed, sl the time slept in the handler.
Answered(kind, p, o, sl) ==
    [hist EXCEPT !.last_error = kind, !.err_part = p, !.owed = o, !.slept = sl]

UpInit ==
    /\ task = "upload"
    /\ impl \in Impls
    /\ \/ fileExists = FALSE /\ fileSize = 0
       \/ fileExists = TRUE /\ fileSize \in 0..MaxFileSize
    /\ \/ dbFile = NoFile /\ dbOther = 0
       \/ dbFile = EmptyDb /\ dbOther = 1
    /\ tmpFile = NoFile
    /\ pc = "idle"
    /\ run = 0
    /\ i = 0
    /\ attempt = 0
    /\ total_parts = 0
    /\ start_part_index = 0
    /\ uploaded_message_info = << >>
    /\ result = "none"
    /\ calls = << >>
    /\ exhausted = {}
    /\ resume_prefix = << >>
    /\ save_prev = EmptyDb
    /\ save_new = EmptyDb
    /\ memOther = 0
    /\ ext_other = dbOther
    /\ hist = [HistInit EXCEPT !.db_at_start = <<dbFile, dbOther>>]

saveHist == <<save_prev, save_new>>

UpEnv == <<impl, fileExists, fileSize>>

\* perform_upload returns v; the job's locals are gone.
Return(v) ==
    /\ pc' = "done"
    /\ result' = v

\* ------------------------------------------------- uploader_bot.perform_upload
\* Entry up to the first part: existence check, load, resume logic, split.
BotStart ==
    /\ impl = "uploader_bot"
    /\ pc \in {"idle", "done"}
    /\ run < MaxRuns
    /\ run' = run + 1
    /\ calls' = << >>
    /\ exhausted' = {}
    /\ attempt' = 0
    /\ IF SourceMissing(fileExists)
       THEN /\ Return("false")
            /\ i' = 0
            /\ total_parts' = 0
            /\ start_part_index' = 0
            /\ uploaded_message_info' = << >>
            /\ resume_prefix' = << >>
            /\ hist' = StartHist({})
            /\ UNCHANGED memOther
       ELSE LET db == LoadDb(dbFile)
                total_parts_calc == Ceil(fileSize, ChunkSize)
                k == NumPartsOnRecord(db)
            IN /\ hist' = StartHist({"load", "split"})
               /\ memOther' = LoadOther(dbFile, dbOther)
               /\ start_part_index' = StartPartIndex(k, total_parts_calc)
               /\ i' = StartPartIndex(k, total_parts_calc)
               /\ uploaded_message_info' = ResumeMessages(db, total_parts_calc)
               /\ resume_prefix' = ResumeMessages(db, total_parts_calc)
               /\ total_parts' = total_parts_calc
               /\ IF fileSize = 0
                  THEN Return(EmptyFileResult)
                  ELSE /\ pc' = "loop"
                       /\ result' = "none"
    /\ UNCHANGED <<dbOther, ext_other>>
    /\ UNCHANGED <<auxVars, task, spVars, dlVars, saveHist, UpEnv, dbFile, tmpFile>>

\* The for loop over the parts is over: the finally block, then return True.
BotFinish ==
    /\ impl = "uploader_bot"
    /\ pc = "loop"
    /\ i = total_parts
    /\ Return("true")
    /\ UNCHANGED <<dbOther, memOther, ext_other>>
    /\ UNCHANGED hist
    /\ UNCHANGED <<auxVars, task, spVars, dlVars, saveHist, UpEnv, dbFile, tmpFile, run, i, attempt, total_parts,
                   start_part_index, uploaded_message_info, calls, exhausted,
                   resume_prefix>>

\* send_document returns a message for part i.
BotSendOk ==
    /\ impl = "uploader_bot"
    /\ pc = "loop"
    /\ i < total_parts
    /\ attempt < BOT_UPLOAD_RETRIES
    /\ calls' = Called(i)
    /\ pc' = "acked"
    /\ UNCHANGED <<dbOther, memOther, ext_other>>
    /\ hist' = Answered("none", i, 0, 0)
    /\ UNCHANGED <<auxVars, task, spVars, dlVars, saveHist, UpEnv, dbFile, tmpFile, run, i, attempt, total_parts,
                   start_part_index, uploaded_message_info, result, exhausted,
                   resume_prefix>>

\* send_document raises ApiTelegramException with error_code 429: sleep
\* retry_after, then the next iteration of the retry loop; when the loop runs
\* out, its else clause raises and the job returns False.
BotSendRateLimited ==
    /\ impl = "uploader_bot"
    /\ pc = "loop"
    /\ i < total_parts
    /\ attempt < BOT_UPLOAD_RETRIES
    /\ calls' = Called(i)
    /\ IF attempt + 1 < BOT_UPLOAD_RETRIES
       THEN /\ attempt' = AfterRateLimit(attempt)
            /\ UNCHANGED <<pc, result, exhausted>>
       ELSE /\ exhausted' = exhausted \cup {i}
            /\ Return(OuterHandler)
            /\ UNCHANGED attempt
    /\ UNCHANGED <<dbOther, memOther, ext_other>>
    /\ \E n \in 1..MaxRetryAfter : hist' = Answered("rate", i, n, SleepFor(n))
    /\ UNCHANGED <<auxVars, task, spVars, dlVars, saveHist, UpEnv, dbFile, tmpFile, run, i, total_parts, start_part_index,
                   uploaded_message_info, resume_prefix>>

\* send_document raises ApiTelegramException with another error_code: raise e
\* leaves both loops; the outer handler returns False.
BotSendApiError ==
    /\ impl = "uploader_bot"
    /\ pc = "loop"
    /\ i < total_parts
    /\ attempt < BOT_UPLOAD_RETRIES
    /\ calls' = Called(i)
    /\ Return(OuterHandler)
    /\ UNCHANGED <<dbOther, memOther, ext_other>>
    /\ hist' = Answered("api", i, 0, 0)
    /\ UNCHANGED <<auxVars, task, spVars, dlVars, saveHist, UpEnv, dbFile, tmpFile, run, i, attempt, total_parts,
                   start_part_index, uploaded_message_info, exhausted,
                   resume_prefix>>

\* send_document raises any other exception: sleep 5 and retry while
\* attempt < 4, else raise e.
BotSendOtherError ==
    /\ impl = "uploader_bot"
    /\ pc = "loop"
    /\ i < total_parts
    /\ attempt < BOT_UPLOAD_RETRIES
    /\ calls' = Called(i)
    /\ IF attempt < BOT_UPLOAD_RETRIES - 1
       THEN /\ attempt' = attempt + 1
            /\ hist' = Answered("other", i, 0, ERROR_DELAY)
            /\ UNCHANGED <<pc, result, exhausted>>
       ELSE /\ exhausted' = exhausted \cup {i}
            /\ hist' = Answered("other", i, 0, 0)
            /\ Return(OuterHandler)
            /\ UNCHANGED attempt
    /\ UNCHANGED <<dbOther, memOther, ext_other>>
    /\ UNCHANGED <<auxVars, task, spVars, dlVars, saveHist, UpEnv, dbFile, tmpFile, run, i, total_parts, start_part_index,
                   uploaded_message_info, resume_prefix>>

\* uploaded_message_info.append(...), the entry is set, and save_json_db opens
\* path + ".tmp" for writing.
BotSaveOpenTmp ==
    /\ impl = "uploader_bot"
    /\ pc = "acked"
    /\ uploaded_message_info' = Append(uploaded_message_info, Locator(i, run))
    /\ tmpFile' = Partial
    /\ save_prev' = LoadDb(dbFile)
    /\ save_new' = Doc(uploaded_message_info', total_parts)
    /\ pc' = "tmpopen"
    /\ UNCHANGED <<dbOther, memOther, ext_other>>
    /\ hist' = [hist EXCEPT !.events = @ \cup {"save"}]
    /\ UNCHANGED <<auxVars, task, spVars, dlVars, UpEnv, dbFile, run, i, attempt, total_parts, start_part_index,
                   result, calls, exhausted, resume_prefix>>

\* json.dump has written the whole document to the temporary file.
BotSaveWriteTmp ==
    /\ impl = "uploader_bot"
    /\ pc = "tmpopen"
    /\ tmpFile' = Doc(uploaded_message_info, total_parts)
    /\ pc' = "tmpwritten"
    /\ UNCHANGED <<dbOther, memOther, ext_other>>
    /\ UNCHANGED hist
    /\ UNCHANGED <<auxVars, task, spVars, dlVars, saveHist, UpEnv, dbFile, run, i, attempt, total_parts, start_part_index,
                   uploaded_message_info, result, calls, exhausted, resume_prefix>>

\* shutil.move(temp_path, path), then break, pbar.update, sleep(1): next part.
BotSaveMove ==
    /\ impl = "uploader_bot"
    /\ pc = "tmpwritten"
    /\ dbFile' = MoveResult(tmpFile, dbFile)
    /\ tmpFile' = NoFile
    /\ i' = i + 1
    /\ attempt' = 0
    /\ pc' = "loop"
    /\ dbOther' = MoveResult(memOther, dbOther)
    /\ UNCHANGED <<memOther, ext_other>>
    /\ hist' = [hist EXCEPT !.slept = INTER_PART_DELAY]
    /\ UNCHANGED <<auxVars, task, spVars, dlVars, saveHist, UpEnv, run, total_parts, start_part_index,
                   uploaded_message_info, result, calls, exhausted, resume_prefix>>

\* ----------------------------------------------------- uploader.perform_upload
\* Entry up to the first part: existence check, total_parts, load, resume logic,
\* the generator advanced past the parts on record.
UplStart ==
    /\ impl = "uploader"
    /\ pc \in {"idle", "done"}
    /\ run < MaxRuns
    /\ run' = run + 1
    /\ calls' = << >>
    /\ exhausted' = {}
    /\ attempt' = 0
    /\ IF SourceMissing(fileExists)
       THEN /\ Return("false")
            /\ i' = 0
            /\ total_parts' = 0
            /\ start_part_index' = 0
            /\ uploaded_message_info' = << >>
            /\ resume_prefix' = << >>
            /\ hist' = StartHist({})
            /\ UNCHANGED memOther
       ELSE LET db == LoadDb(dbFile)
                total == Ceil(fileSize, ChunkSize)
                k == NumPartsOnRecord(db)
            IN /\ hist' = StartHist({"load", "split"})
               /\ memOther' = LoadOther(dbFile, dbOther)
               /\ total_parts' = total
               /\ start_part_index' = StartPartIndex(k, total)
               /\ i' = StartPartIndex(k, total)
               /\ uploaded_message_info' = ResumeMessages(db, total)
               /\ resume_prefix' = ResumeMessages(db, total)
               /\ pc' = "loop"
               /\ result' = "none"
    /\ UNCHANGED <<dbOther, ext_other>>
    /\ UNCHANGED <<auxVars, task, spVars, dlVars, saveHist, UpEnv, dbFile, tmpFile>>

\* The generator is exhausted: return True.
UplFinish ==
    /\ impl = "uploader"
    /\ pc = "loop"
    /\ i = total_parts
    /\ Return("true")
    /\ UNCHANGED <<dbOther, memOther, ext_other>>
    /\ UNCHANGED hist
    /\ UNCHANGED <<auxVars, task, spVars, dlVars, saveHist, UpEnv, dbFile, tmpFile, run, i, attempt, total_parts,
                   start_part_index, uploaded_message_info, calls, exhausted,
                   resume_prefix>>

\* send_document returns a message for part i.
UplSendOk ==
    /\ impl = "uploader"
    /\ pc = "loop"
    /\ i < total_parts
    /\ attempt < UPLOAD_RETRIES
    /\ calls' = Called(i)
    /\ pc' = "acked"
    /\ UNCHANGED <<dbOther, memOther, ext_other>>
    /\ hist' = Answered("none", i, 0, 0)
    /\ UNCHANGED <<auxVars, task, spVars, dlVars, saveHist, UpEnv, dbFile, tmpFile, run, i, attempt, total_parts,
                   start_part_index, uploaded_message_info, result, exhausted,
                   resume_prefix>>

\* error_code 429: sleep retry_after, continue. The retry loop has no else
\* clause: when it runs out, control falls to pbar.update(1) and the for loop
\* takes the next chunk.
UplSendRateLimited ==
    /\ impl = "uploader"
    /\ pc = "loop"
    /\ i < total_parts
    /\ attempt < UPLOAD_RETRIES
    /\ calls' = Called(i)
    /\ IF attempt + 1 < UPLOAD_RETRIES
       THEN /\ attempt' = attempt + 1
            /\ UNCHANGED <<i, exhausted>>
       ELSE /\ exhausted' = exhausted \cup {i}
            /\ i' = i + 1
            /\ attempt' = 0
    /\ UNCHANGED <<dbOther, memOther, ext_other>>
    /\ \E n \in 1..MaxRetryAfter : hist' = Answered("rate", i, n, SleepFor(n))
    /\ UNCHANGED <<auxVars, task, spVars, dlVars, saveHist, UpEnv, dbFile, tmpFile, pc, run, total_parts, start_part_index,
                   uploaded_message_info, result, resume_prefix>>

\* ApiTelegramException with another error_code: raise e, the job returns False.
UplSendApiError ==
    /\ impl = "uploader"
    /\ pc = "loop"
    /\ i < total_parts
    /\ attempt < UPLOAD_RETRIES
    /\ calls' = Called(i)
    /\ Return(OuterHandler)
    /\ UNCHANGED <<dbOther, memOther, ext_other>>
    /\ hist' = Answered("api", i, 0, 0)
    /\ UNCHANGED <<auxVars, task, spVars, dlVars, saveHist, UpEnv, dbFile, tmpFile, run, i, attempt, total_parts,
                   start_part_index, uploaded_message_info, exhausted,
                   resume_prefix>>

\* Any other exception: sleep 5 and retry while attempt < UPLOAD_RETRIES - 1,
\* else raise e.
UplSendOtherError ==
    /\ impl = "uploader"
    /\ pc = "loop"
    /\ i < total_parts
    /\ attempt < UPLOAD_RETRIES
    /\ calls' = Called(i)
    /\ IF attempt < UPLOAD_RETRIES - 1
       THEN /\ attempt' = attempt + 1
            /\ hist' = Answered("other", i, 0, ERROR_DELAY)
            /\ UNCHANGED <<pc, result, exhausted>>
       ELSE /\ exhausted' = exhausted \cup {i}
            /\ hist' = Answered("other", i, 0, 0)
            /\ Return(OuterHandler)
            /\ UNCHANGED attempt
    /\ UNCHANGED <<dbOther, memOther, ext_other>>
    /\ UNCHANGED <<auxVars, task, spVars, dlVars, saveHist, UpEnv, dbFile, tmpFile, run, i, total_parts, start_part_index,
                   uploaded_message_info, resume_prefix>>

\* uploaded_message_info.append(...), the entry is set, and save_upload_db opens
\* UPLOAD_DB_PATH itself with mode 'w', which truncates it.
UplSaveOpen ==
    /\ impl = "uploader"
    /\ pc = "acked"
    /\ uploaded_message_info' = Append(uploaded_message_info, Locator(i, run))
    /\ dbFile' = Partial
    /\ save_prev' = LoadDb(dbFile)
    /\ save_new' = Doc(uploaded_message_info', total_parts)
    /\ pc' = "dbopen"
    /\ dbOther' = 0
    /\ UNCHANGED <<memOther, ext_other>>
    /\ hist' = [hist EXCEPT !.events = @ \cup {"save"}]
    /\ UNCHANGED <<auxVars, task, spVars, dlVars, UpEnv, tmpFile, run, i, attempt, total_parts, start_part_index,
                   result, calls, exhausted, resume_prefix>>

\* json.dump has written the whole document; break, pbar.update, sleep(1).
UplSaveWrite ==
    /\ impl = "uploader"
    /\ pc = "dbopen"
    /\ dbFile' = Doc(uploaded_message_info, total_parts)
    /\ i' = i + 1
    /\ attempt' = 0
    /\ pc' = "loop"
    /\ dbOther' = memOther
    /\ UNCHANGED <<memOther, ext_other>>
    /\ hist' = [hist EXCEPT !.slept = INTER_PART_DELAY]
    /\ UNCHANGED <<auxVars, task, spVars, dlVars, saveHist, UpEnv, tmpFile, run, total_parts, start_part_index,
                   uploaded_message_info, result, calls, exhausted, resume_prefix>>

\* ------------------------------------------------------------------ crash
\* The client process dies while a job runs: the job's locals are lost, the
\* files stay as they are. The client is started again and waits for a command.
Crash ==
    /\ pc \in {"loop", "acked", "tmpopen", "tmpwritten", "dbopen"}
    /\ pc' = "idle"
    /\ result' = "none"
    /\ i' = 0
    /\ attempt' = 0
    /\ total_parts' = 0
    /\ start_part_index' = 0
    /\ uploaded_message_info' = << >>
    /\ memOther' = 0
    /\ UNCHANGED <<dbOther, ext_other>>
    /\ hist' = [hist EXCEPT
                 !.crash_part = IF pc \in {"acked", "tmpopen", "tmpwritten", "dbopen"}
                                THEN i ELSE -1,
                 !.crash_persisted = Len(LoadDb(dbFile).messages),
                 !.restarted = FALSE]
    /\ UNCHANGED <<auxVars, task, spVars, dlVars, saveHist, UpEnv, dbFile, tmpFile, run, calls, exhausted, resume_prefix>>

\* ---------------------------------------------------------------- download
Parts == 0..(MaxDlParts - 1)

\* The bytes behind the locator of part p: a marker that names the part.
PartContent(p) == p

AbsentFile == [exists |-> FALSE, content |-> << >>]
\* What an earlier download of the same name may have left at the destination.
OldFile == [exists |-> TRUE, content |-> <<-1>>]

Range(s) == {s[n] : n \in 1..Len(s)}

RECURSIVE SortSet(_)
\* sorted(S) for a set of integers
SortSet(S) ==
    IF S = {} THEN << >>
    ELSE LET m == CHOOSE x \in S : \A y \in S : x <= y
         IN <<m>> \o SortSet(S \ {m})

ArrivalOrder(r) == r
\* [results[i] for i in sorted(results.keys())], r the keys in insertion order
SortedPaths(r) == SortSet(Range(r))

\* join_files_here: the bytes of each part of parts_list, in the order given
JoinContent(parts_list) == [n \in 1..Len(parts_list) |-> PartContent(parts_list[n])]

AbortOnSecondFailure(failed) == failed > 1
\* if failed_parts > 0: return False
AbortJoin(failed) == failed > 0

KeepTempDir(exists) == exists
\* the finally block: temp_download_dir exists after it
TempDirAfterFinally(exists) == FALSE

Finished(p) == wstate[p] \in {"ok", "none", "raised"}
Dispatched == {p \in Parts : wstate[p] # "idle"}

GiveUpAtOnce(a) == TRUE
\* the else branch of: if attempt < DOWNLOAD_RETRIES - 1
GiveUp(a) == ~(a < DOWNLOAD_RETRIES - 1)

SameDelay(d) == d
\* delay *= 2
NextDelay(d) == d * BACKOFF_FACTOR

\* A worker that has not been entered: no request made, no sleep done.
WkInit == [calls |-> 0, delay |-> 0, sleeps |-> << >>, jitter |-> 0, last |-> "none"]

\* The worker of part p got the answer `kind` to one more getFile/download.
WkAnswered(p, kind) == [wk EXCEPT ![p].calls = @ + 1, ![p].last = kind]

ShutdownNoWait(d) == TRUE
\* Leaving the with block on an exception: the executor's shutdown returns
\* when every submitted call has finished.
ShutdownWaits(d) == \A p \in d : Finished(p)

DlIdle ==
    /\ dl_pc = "idle"
    /\ messages = 0
    /\ dl_total_parts = 0
    /\ wstate = [p \in Parts |-> "idle"]
    /\ wattempt = [p \in Parts |-> 0]
    /\ wk = [p \in Parts |-> WkInit]
    /\ collected = {}
    /\ results = << >>
    /\ failed_parts = 0
    /\ tempDir = FALSE
    /\ partFiles = {}
    /\ outFile = AbsentFile
    /\ outBefore = AbsentFile
    /\ joined = << >>
    /\ joinCalled = FALSE
    /\ dl_result = "none"

\* perform_download is entered with file_info holding n locators and
\* total_parts = t: the empty check, makedirs, every part submitted to the pool.
DlStart ==
    /\ dl_pc = "idle"
    /\ \E t \in 1..MaxDlParts : \E n \in 0..t :
        /\ messages' = n
        /\ dl_total_parts' = t
        /\ IF n = 0
           THEN /\ dl_pc' = "done"
                /\ dl_result' = "false"
                /\ UNCHANGED <<wstate, tempDir>>
           ELSE /\ dl_pc' = "collect"
                /\ tempDir' = TRUE
                /\ wstate' = [p \in Parts |-> IF p < n THEN "queued" ELSE "idle"]
                /\ UNCHANGED dl_result
    /\ outBefore' = outFile
    /\ UNCHANGED wk
    /\ UNCHANGED <<auxVars, spVars, upVars, wattempt, collected, results, failed_parts, partFiles,
                   outFile, joined, joinCalled>>

\* A pool thread takes the submitted call of part p: the jitter sleep is over
\* and the retry loop starts.
WorkerBegin(p) ==
    /\ wstate[p] = "queued"
    /\ Cardinality({q \in Parts : wstate[q] = "running"}) < CONCURRENT_DOWNLOADS
    /\ wstate' = [wstate EXCEPT ![p] = "running"]
    /\ wk' = [wk EXCEPT ![p].delay = INITIAL_DELAY, ![p].jitter = @ + 1]
    /\ UNCHANGED <<auxVars, spVars, upVars, dl_pc, messages, dl_total_parts, wattempt, collected,
                   results, failed_parts, tempDir, partFiles, outFile, outBefore,
                   joined, joinCalled, dl_result>>

\* getFile answers ok and the bytes are streamed to part_path: return part_path.
WorkerFetchOk(p) ==
    /\ wstate[p] = "running"
    /\ wattempt[p] < DOWNLOAD_RETRIES
    /\ partFiles' = partFiles \cup {p}
    /\ wstate' = [wstate EXCEPT ![p] = "ok"]
    /\ wk' = WkAnswered(p, "ok")
    /\ UNCHANGED <<auxVars, spVars, upVars, dl_pc, messages, dl_total_parts, wattempt, collected,
                   results, failed_parts, tempDir, outFile, outBefore, joined,
                   joinCalled, dl_result>>

\* getFile answers not ok with "wrong file_id" in the description: return None.
WorkerWrongFileId(p) ==
    /\ wstate[p] = "running"
    /\ wattempt[p] < DOWNLOAD_RETRIES
    /\ wstate' = [wstate EXCEPT ![p] = "none"]
    /\ wk' = WkAnswered(p, "wrong_id")
    /\ UNCHANGED <<auxVars, spVars, upVars, dl_pc, messages, dl_total_parts, wattempt, collected,
                   results, failed_parts, tempDir, partFiles, outFile, outBefore,
                   joined, joinCalled, dl_result>>

\* A RequestException (another API error, a failed request or status, a broken
\* stream, which may already have created the part file): sleep and retry while
\* attempt < DOWNLOAD_RETRIES - 1, else return None.
WorkerRequestError(p) ==
    /\ wstate[p] = "running"
    /\ wattempt[p] < DOWNLOAD_RETRIES
    /\ \E wrote \in BOOLEAN :
         partFiles' = IF wrote THEN partFiles \cup {p} ELSE partFiles
    /\ IF ~GiveUp(wattempt[p])
       THEN /\ wattempt' = [wattempt EXCEPT ![p] = wattempt[p] + 1]
            /\ wk' = [WkAnswered(p, "error") EXCEPT
                        ![p].sleeps = Append(@, wk[p].delay),
                        ![p].delay = NextDelay(@)]
            /\ UNCHANGED wstate
       ELSE /\ wstate' = [wstate EXCEPT ![p] = "none"]
            /\ wk' = WkAnswered(p, "error")
            /\ UNCHANGED wattempt
    /\ UNCHANGED <<auxVars, spVars, upVars, dl_pc, messages, dl_total_parts, collected, results,
                   failed_parts, tempDir, outFile, outBefore, joined, joinCalled,
                   dl_result>>

\* Any exception that is no RequestException leaves the worker: the future
\* holds the exception.
WorkerRaise(p) ==
    /\ wstate[p] = "running"
    /\ wattempt[p] < DOWNLOAD_RETRIES
    /\ wstate' = [wstate EXCEPT ![p] = "raised"]
    /\ wk' = WkAnswered(p, "raised")
    /\ UNCHANGED <<auxVars, spVars, upVars, dl_pc, messages, dl_total_parts, wattempt, collected,
                   results, failed_parts, tempDir, partFiles, outFile, outBefore,
                   joined, joinCalled, dl_result>>

\* One iteration of for future in as_completed(future_to_part): future.result()
\* returns a path or None, or raises the worker's exception.
DlCollect(p) ==
    /\ dl_pc = "collect"
    /\ Finished(p)
    /\ p \notin collected
    /\ collected' = collected \cup {p}
    /\ results' = IF wstate[p] = "ok" THEN Append(results, p) ELSE results
    /\ failed_parts' = IF wstate[p] = "none" THEN failed_parts + 1 ELSE failed_parts
    /\ dl_pc' = IF wstate[p] = "raised" THEN "unwinding" ELSE "collect"
    /\ UNCHANGED wk
    /\ UNCHANGED <<auxVars, spVars, upVars, messages, dl_total_parts, wstate, wattempt, tempDir,
                   partFiles, outFile, outBefore, joined, joinCalled, dl_result>>

\* Every future was taken and failed_parts > 0: return False, then the finally
\* block.
DlAbort ==
    /\ dl_pc = "collect"
    /\ collected = Dispatched
    /\ AbortJoin(failed_parts)
    /\ dl_pc' = "done"
    /\ dl_result' = "false"
    /\ tempDir' = TempDirAfterFinally(tempDir)
    /\ partFiles' = IF tempDir' THEN partFiles ELSE {}
    /\ UNCHANGED wk
    /\ UNCHANGED <<auxVars, spVars, upVars, messages, dl_total_parts, wstate, wattempt, collected,
                   results, failed_parts, outFile, outBefore, joined, joinCalled>>

\* Every future was taken and none failed: the paths are sorted and joined into
\* the output file; return True, then the finally block.
DlJoin ==
    /\ dl_pc = "collect"
    /\ collected = Dispatched
    /\ ~AbortJoin(failed_parts)
    /\ joined' = SortedPaths(results)
    /\ joinCalled' = TRUE
    /\ outFile' = [exists |-> TRUE, content |-> JoinContent(joined')]
    /\ dl_pc' = "done"
    /\ dl_result' = "true"
    /\ tempDir' = TempDirAfterFinally(tempDir)
    /\ partFiles' = IF tempDir' THEN partFiles ELSE {}
    /\ UNCHANGED wk
    /\ UNCHANGED <<auxVars, spVars, upVars, messages, dl_total_parts, wstate, wattempt, collected,
                   results, failed_parts, outBefore>>

\* As DlJoin, but join_files_here raises after n parts were written: the
\* handler returns False, then the finally block.
DlJoinRaise ==
    /\ dl_pc = "collect"
    /\ collected = Dispatched
    /\ ~AbortJoin(failed_parts)
    /\ joined' = SortedPaths(results)
    /\ joinCalled' = TRUE
    /\ \E n \in 0..(Len(joined') - 1) :
         outFile' = [exists |-> TRUE, content |-> SubSeq(JoinContent(joined'), 1, n)]
    /\ dl_pc' = "done"
    /\ dl_result' = "false"
    /\ tempDir' = TempDirAfterFinally(tempDir)
    /\ partFiles' = IF tempDir' THEN partFiles ELSE {}
    /\ UNCHANGED wk
    /\ UNCHANGED <<auxVars, spVars, upVars, messages, dl_total_parts, wstate, wattempt, collected,
                   results, failed_parts, outBefore>>

\* future.result() raised: leaving the with block waits for every submitted
\* call, then the handler returns False, then the finally block.
DlUnwind ==
    /\ dl_pc = "unwinding"
    /\ ShutdownWaits(Dispatched)
    /\ dl_pc' = "done"
    /\ dl_result' = "false"
    /\ tempDir' = TempDirAfterFinally(tempDir)
    /\ partFiles' = IF tempDir' THEN partFiles ELSE {}
    /\ UNCHANGED wk
    /\ UNCHANGED <<auxVars, spVars, upVars, messages, dl_total_parts, wstate, wattempt, collected,
                   results, failed_parts, outFile, outBefore, joined, joinCalled>>

\* ------------------------------------------------------- splitter, joiner
Bytes == {0, 1}
Contents == UNION {[1..n -> Bytes] : n \in 0..MaxFileSize}

Min(a, b) == IF a <= b THEN a ELSE b

ReadChunkWholeOnly(content, pos, n) ==
    IF pos + n <= Len(content) THEN SubSeq(content, pos + 1, pos + n) ELSE << >>
\* f.read(n) at position pos: up to n bytes, fewer at the end of the file
ReadChunk(content, pos, n) == SubSeq(content, pos + 1, Min(pos + n, Len(content)))

RECURSIVE JoinFiles(_)
\* join_files_here on the bytes of the parts: outfile.write(part_file.read()) for
\* each part of parts_list in turn
JoinFiles(parts_list) ==
    IF parts_list = << >> THEN << >>
    ELSE Head(parts_list) \o JoinFiles(Tail(parts_list))

SpIdle ==
    /\ sp_pc = "idle"
    /\ src_exists = FALSE
    /\ src = << >>
    /\ sp_pos = 0
    /\ parts_paths = << >>
    /\ sp_total = 0
    /\ sp_out = << >>

\* split_file up to the read loop: FileNotFoundError for a missing path,
\* ([], 0) for an empty file, else total_parts and the open file.
SplitStart ==
    /\ sp_pc = "idle"
    /\ IF ~src_exists
       THEN /\ sp_pc' = "raised"
            /\ UNCHANGED sp_total
       ELSE IF Len(src) = 0
       THEN /\ sp_pc' = "split_done"
            /\ sp_total' = 0
       ELSE /\ sp_pc' = "reading"
            /\ sp_total' = Ceil(Len(src), ChunkSize)
    /\ UNCHANGED <<auxVars, upVars, dlVars, src_exists, src, sp_pos, parts_paths, sp_out>>

\* One iteration of the read loop: an empty chunk ends it, else the chunk is
\* written to its part file and the path appended.
SplitRead ==
    /\ sp_pc = "reading"
    /\ LET chunk == ReadChunk(src, sp_pos, ChunkSize)
       IN IF chunk = << >>
          THEN /\ sp_pc' = "split_done"
               /\ UNCHANGED <<sp_pos, parts_paths>>
          ELSE /\ parts_paths' = Append(parts_paths, chunk)
               /\ sp_pos' = sp_pos + Len(chunk)
               /\ UNCHANGED sp_pc
    /\ UNCHANGED <<auxVars, upVars, dlVars, src_exists, src, sp_total, sp_out>>

\* join_files_here on the returned list.
SplitJoin ==
    /\ sp_pc = "split_done"
    /\ sp_out' = JoinFiles(parts_paths)
    /\ sp_pc' = "joined"
    /\ UNCHANGED <<auxVars, upVars, dlVars, src_exists, src, sp_pos, parts_paths, sp_total>>

\* ----------------------------------------------------------- specifications
Init == UpInit /\ DlIdle /\ SpIdle /\ AuxIdle

Next ==
    \/ BotStart \/ BotFinish \/ BotSendOk \/ BotSendRateLimited
    \/ BotSendApiError \/ BotSendOtherError
    \/ BotSaveOpenTmp \/ BotSaveWriteTmp \/ BotSaveMove
    \/ UplStart \/ UplFinish \/ UplSendOk \/ UplSendRateLimited
    \/ UplSendApiError \/ UplSendOtherError
    \/ UplSaveOpen \/ UplSaveWrite
    \/ Crash

Spec == Init /\ [][Next]_vars

\* A download job; no upload runs. The destination may hold an earlier download.
UpIdle ==
    /\ impl = "uploader_bot"
    /\ fileExists = FALSE
    /\ fileSize = 0
    /\ dbFile = NoFile
    /\ dbOther = 0
    /\ tmpFile = NoFile
    /\ pc = "idle"
    /\ run = 0
    /\ i = 0
    /\ attempt = 0
    /\ total_parts = 0
    /\ start_part_index = 0
    /\ uploaded_message_info = << >>
    /\ result = "none"
    /\ calls = << >>
    /\ exhausted = {}
    /\ resume_prefix = << >>
    /\ save_prev = EmptyDb
    /\ save_new = EmptyDb
    /\ memOther = 0
    /\ ext_other = 0
    /\ hist = HistInit

InitDownload ==
    /\ task = "download"
    /\ AuxIdle
    /\ UpIdle
    /\ dl_pc = "idle"
    /\ messages = 0
    /\ dl_total_parts = 0
    /\ wstate = [p \in Parts |-> "idle"]
    /\ wattempt = [p \in Parts |-> 0]
    /\ wk = [p \in Parts |-> WkInit]
    /\ collected = {}
    /\ results = << >>
    /\ failed_parts = 0
    /\ tempDir = FALSE
    /\ partFiles = {}
    /\ outFile \in {AbsentFile, OldFile}
    /\ outBefore = outFile
    /\ joined = << >>
    /\ joinCalled = FALSE
    /\ dl_result = "none"
    /\ SpIdle

NextDownload ==
    \/ DlStart
    \/ \E p \in Parts : WorkerBegin(p)
    \/ \E p \in Parts : WorkerFetchOk(p)
    \/ \E p \in Parts : WorkerWrongFileId(p)
    \/ \E p \in Parts : WorkerRequestError(p)
    \/ \E p \in Parts : WorkerRaise(p)
    \/ \E p \in Parts : DlCollect(p)
    \/ DlAbort \/ DlJoin \/ DlJoinRaise \/ DlUnwind

SpecDownload == InitDownload /\ [][NextDownload]_vars

\* ---- upload jobs as the client runs them: main.py imports perform_upload
\* from uploader_bot

InitBot ==
    /\ Init
    /\ impl = "uploader_bot"

NextBot ==
    \/ BotStart \/ BotFinish \/ BotSendOk \/ BotSendRateLimited
    \/ BotSendApiError \/ BotSendOtherError
    \/ BotSaveOpenTmp \/ BotSaveWriteTmp \/ BotSaveMove
    \/ Crash

SpecBot == InitBot /\ [][NextBot]_vars

\* ---- other parties writing the manifest file while upload jobs run

\* save_json_db of the running job is between opening the temporary file and
\* moving it over the manifest file.
InSave == pc \in {"tmpopen", "tmpwritten"}

\* Another party (a second upload job, for a different filename) loads the
\* file, sets its own entry and saves.
ExtUpdate ==
    /\ ext_other < MaxExt
    /\ ext_other' = ext_other + 1
    /\ dbOther' = ext_other + 1
    /\ dbFile' = LoadDb(dbFile)
    /\ hist' = [hist EXCEPT !.raced = @ \/ InSave]
    /\ UNCHANGED <<auxVars, task, spVars, dlVars, saveHist, UpEnv, tmpFile, pc, run, i, attempt,
                   total_parts, start_part_index, uploaded_message_info, result,
                   calls, exhausted, resume_prefix, memOther>>

\* The bot's /reset, confirmed: the user's manifest file is removed.
HandleReset ==
    /\ dbFile.kind # "nofile"
    /\ dbFile' = NoFile
    /\ dbOther' = 0
    /\ ext_other' = 0
    /\ hist' = [hist EXCEPT !.raced = @ \/ InSave]
    /\ UNCHANGED <<auxVars, task, spVars, dlVars, saveHist, UpEnv, tmpFile, pc, run, i, attempt,
                   total_parts, start_part_index, uploaded_message_info, result,
                   calls, exhausted, resume_prefix, memOther>>

NextConcurrent ==
    \/ BotStart
    \/ BotFinish
    \/ BotSendOk
    \/ BotSendRateLimited
    \/ BotSendApiError
    \/ BotSendOtherError
    \/ BotSaveOpenTmp
    \/ BotSaveWriteTmp
    \/ BotSaveMove
    \/ ExtUpdate
    \/ HandleReset

SpecConcurrent == InitBot /\ [][NextConcurrent]_vars

\* ---- the client's task is an upload or a download

InitTransfer == InitBot \/ InitDownload

NextTransfer ==
    \/ task = "upload" /\ BotStart
    \/ task = "upload" /\ BotFinish
    \/ task = "upload" /\ BotSendOk
    \/ task = "upload" /\ BotSendRateLimited
    \/ task = "upload" /\ BotSendApiError
    \/ task = "upload" /\ BotSendOtherError
    \/ task = "upload" /\ BotSaveOpenTmp
    \/ task = "upload" /\ BotSaveWriteTmp
    \/ task = "upload" /\ BotSaveMove
    \/ task = "upload" /\ Crash
    \/ task = "download" /\ DlStart
    \/ task = "download" /\ \E p \in Parts : WorkerBegin(p)
    \/ task = "download" /\ \E p \in Parts : WorkerFetchOk(p)
    \/ task = "download" /\ \E p \in Parts : WorkerWrongFileId(p)
    \/ task = "download" /\ \E p \in Parts : WorkerRequestError(p)
    \/ task = "download" /\ \E p \in Parts : WorkerRaise(p)
    \/ task = "download" /\ \E p \in Parts : DlCollect(p)
    \/ task = "download" /\ DlAbort
    \/ task = "download" /\ DlJoin
    \/ task = "download" /\ DlJoinRaise
    \/ task = "download" /\ DlUnwind

SpecTransfer == InitTransfer /\ [][NextTransfer]_vars

\* split_file on every source file of at most MaxFileSize bytes, then
\* join_files_here on what it returned.
InitSplit ==
    /\ task = "split"
    /\ AuxIdle
    /\ UpIdle
    /\ DlIdle
    /\ sp_pc = "idle"
    /\ \/ src_exists = FALSE /\ src = << >>
       \/ src_exists = TRUE /\ src \in Contents
    /\ sp_pos = 0
    /\ parts_paths = << >>
    /\ sp_total = 0
    /\ sp_out = << >>

NextSplit == SplitStart \/ SplitRead \/ SplitJoin

SpecSplit == InitSplit /\ [][NextSplit]_vars

\* ---- jobs whose process is not killed and whose every call returns

NextLive ==
    \/ task = "upload" /\ BotStart
    \/ task = "upload" /\ BotFinish
    \/ task = "upload" /\ BotSendOk
    \/ task = "upload" /\ BotSendRateLimited
    \/ task = "upload" /\ BotSendApiError
    \/ task = "upload" /\ BotSendOtherError
    \/ task = "upload" /\ BotSaveOpenTmp
    \/ task = "upload" /\ BotSaveWriteTmp
    \/ task = "upload" /\ BotSaveMove
    \/ task = "download" /\ DlStart
    \/ task = "download" /\ \E p \in Parts : WorkerBegin(p)
    \/ task = "download" /\ \E p \in Parts : WorkerFetchOk(p)
    \/ task = "download" /\ \E p \in Parts : WorkerWrongFileId(p)
    \/ task = "download" /\ \E p \in Parts : WorkerRequestError(p)
    \/ task = "download" /\ \E p \in Parts : WorkerRaise(p)
    \/ task = "download" /\ \E p \in Parts : DlCollect(p)
    \/ task = "download" /\ DlAbort
    \/ task = "download" /\ DlJoin
    \/ task = "download" /\ DlJoinRaise
    \/ task = "download" /\ DlUnwind

SpecLive == InitTransfer /\ [][NextLive]_vars /\ WF_vars(NextLive)

\* ---- the thread pool of a download: ThreadPoolExecutor(max_workers=...)
\* The calls are counted, not named: every call is download_part_worker.

OneThreadPerCall(submitted) == submitted
\* Threads of the executor after `submitted` submit calls: submit starts a
\* thread while fewer than max_workers exist.
PoolThreads(submitted) == Min(submitted, CONCURRENT_DOWNLOADS)

\* perform_download opens the executor for a manifest of n locators.
PoolOpen ==
    /\ pl_pc = "idle"
    /\ \E n \in 1..MaxPoolParts : pl_n' = n
    /\ pl_pc' = "open"
    /\ UNCHANGED <<upVars, dlVars, spVars, rsVars, qVars, future_to_part, pl_started, pl_running>>

\* The dict comprehension submits the call of the next (i, msg_info) of
\* enumerate(messages) and records future -> i.
PoolSubmit ==
    /\ pl_pc = "open"
    /\ Len(future_to_part) < pl_n
    /\ future_to_part' = Append(future_to_part, Len(future_to_part))
    /\ UNCHANGED <<upVars, dlVars, spVars, rsVars, qVars, pl_pc, pl_n, pl_started, pl_running>>

\* A thread of the pool that runs no call takes the oldest submitted call.
PoolTake ==
    /\ pl_pc = "open"
    /\ pl_started < Len(future_to_part)
    /\ pl_running < PoolThreads(Len(future_to_part))
    /\ pl_started' = pl_started + 1
    /\ pl_running' = pl_running + 1
    /\ UNCHANGED <<upVars, dlVars, spVars, rsVars, qVars, pl_pc, pl_n, future_to_part>>

\* A running call returns or raises.
PoolWorkerDone ==
    /\ pl_pc = "open"
    /\ pl_running > 0
    /\ pl_running' = pl_running - 1
    /\ UNCHANGED <<upVars, dlVars, spVars, rsVars, qVars, pl_pc, pl_n, future_to_part, pl_started>>

\* The with block is left: shutdown(wait=True) has waited for every call.
PoolClose ==
    /\ pl_pc = "open"
    /\ Len(future_to_part) = pl_n
    /\ pl_started = pl_n
    /\ pl_running = 0
    /\ pl_pc' = "closed"
    /\ UNCHANGED <<upVars, dlVars, spVars, rsVars, qVars, pl_n, future_to_part, pl_started, pl_running>>

InitPool ==
    /\ task = "download"
    /\ UpIdle
    /\ DlIdle
    /\ SpIdle
    /\ AuxIdle

NextPool == PoolOpen \/ PoolSubmit \/ PoolTake \/ PoolWorkerDone \/ PoolClose

SpecPool == InitPool /\ [][NextPool]_vars

\* ---- the task queue: bot.py writes descriptors, main.py takes them
\* Both save with open(path + ".tmp", 'w'), json.dump and a rename onto path.
\* A file that is renamed while a saver still has it open keeps receiving that
\* saver's writes at its new path: svc_h and cl_h say where the open file is.

TaskKinds == {"upload", "download"}

Pending(t, k) == [task |-> t, status |-> "pending", id |-> k]

\* handle_upload_command / handle_download_callback for user u: load the
\* queue and set tasks_db[user_id] to a new pending descriptor.
SvcCommand ==
    /\ svc_pc = "idle"
    /\ next_id < MaxCmds
    /\ next_id' = next_id + 1
    /\ \E u \in Users, t \in TaskKinds :
         svc_db' = [LoadQueue(qFile) EXCEPT ![u] = Pending(t, next_id + 1)]
    /\ svc_pc' = "save"
    /\ UNCHANGED <<upVars, dlVars, spVars, rsVars, poolVars, qFile, qTmp, svc_h, cl_pc, cl_phase, tasks_db, cl_h,
                   invoked, qhist>>

\* save_json_db: open(temp_path, 'w')
SvcSaveOpen ==
    /\ svc_pc = "save"
    /\ qTmp' = QPartial
    /\ svc_h' = "tmp"
    /\ svc_pc' = "tmpopen"
    /\ qhist' = [qhist EXCEPT !.raced = @ \/ cl_pc \in {"tmpopen", "tmpwritten"}]
    /\ UNCHANGED <<upVars, dlVars, spVars, rsVars, poolVars, qFile, svc_db, cl_pc, cl_phase, tasks_db, cl_h,
                   next_id, invoked>>

\* save_json_db: json.dump and close
SvcSaveWrite ==
    /\ svc_pc = "tmpopen"
    /\ IF svc_h = "tmp"
       THEN qTmp' = QDoc(svc_db) /\ UNCHANGED qFile
       ELSE qFile' = QDoc(svc_db) /\ UNCHANGED qTmp
    /\ svc_pc' = "tmpwritten"
    /\ qhist' = [qhist EXCEPT !.popped = FALSE]
    /\ UNCHANGED <<upVars, dlVars, spVars, rsVars, poolVars, svc_db, svc_h, cl_pc, cl_phase, tasks_db, cl_h,
                   next_id, invoked>>

\* save_json_db: shutil.move(temp_path, path); FileNotFoundError when the
\* temporary file is not there.
SvcSaveMove ==
    /\ svc_pc = "tmpwritten"
    /\ svc_pc' = "idle"
    /\ IF qTmp.kind # "nofile"
       THEN /\ qFile' = qTmp
            /\ qTmp' = QNoFile
            /\ cl_h' = IF cl_pc = "tmpopen" THEN "target" ELSE cl_h
            /\ qhist' = [qhist EXCEPT !.popped = FALSE, !.live =
                           [u \in Users |-> IF svc_db[u].id = next_id
                                            THEN next_id ELSE @[u]]]
       ELSE /\ qhist' = [qhist EXCEPT !.failed = @ \cup {"bot"}, !.popped = FALSE]
            /\ UNCHANGED <<qFile, qTmp, cl_h>>
    /\ UNCHANGED <<upVars, dlVars, spVars, rsVars, poolVars, svc_db, svc_h, cl_pc, cl_phase, tasks_db,
                   next_id, invoked>>

\* The polling loop: load the queue; a pending task of this user is set to
\* "processing" and the queue is saved, else the loop sleeps.
ClPoll ==
    /\ cl_pc = "poll"
    /\ LET db == LoadQueue(qFile)
       IN IF db["me"].status = "pending"
          THEN /\ tasks_db' = [db EXCEPT !["me"].status = "processing"]
               /\ cl_pc' = "save"
               /\ cl_phase' = "mark"
               /\ qhist' = [qhist EXCEPT !.popped = FALSE, !.marked = 0,
                                         !.taken = db["me"].id,
                                         !.picked = db["me"].status]
          ELSE /\ tasks_db' = db
               /\ qhist' = [qhist EXCEPT !.popped = FALSE]
               /\ UNCHANGED <<cl_pc, cl_phase>>
    /\ UNCHANGED <<upVars, dlVars, spVars, rsVars, poolVars, qFile, qTmp, svc_pc, svc_db, svc_h, cl_h,
                   next_id, invoked>>

\* save_json: open(temp_path, 'w')
ClSaveOpen ==
    /\ cl_pc = "save"
    /\ qTmp' = QPartial
    /\ cl_h' = "tmp"
    /\ cl_pc' = "tmpopen"
    /\ qhist' = [qhist EXCEPT !.raced = @ \/ svc_pc \in {"tmpopen", "tmpwritten"}]
    /\ UNCHANGED <<upVars, dlVars, spVars, rsVars, poolVars, qFile, svc_pc, svc_db, svc_h, cl_phase, tasks_db,
                   next_id, invoked>>

\* save_json: json.dump and close
ClSaveWrite ==
    /\ cl_pc = "tmpopen"
    /\ IF cl_h = "tmp"
       THEN qTmp' = QDoc(tasks_db) /\ UNCHANGED qFile
       ELSE qFile' = QDoc(tasks_db) /\ UNCHANGED qTmp
    /\ cl_pc' = "tmpwritten"
    /\ UNCHANGED <<upVars, dlVars, spVars, rsVars, poolVars, svc_pc, svc_db, svc_h, cl_phase, tasks_db, cl_h,
                   next_id, invoked, qhist>>

\* save_json: os.replace(temp_path, path). After the first save of the loop
\* the engine is invoked, after the second the loop sleeps; a missing
\* temporary file raises into except Exception of the loop.
ClSaveMove ==
    /\ cl_pc = "tmpwritten"
    /\ IF qTmp.kind # "nofile"
       THEN /\ qFile' = qTmp
            /\ qTmp' = QNoFile
            /\ svc_h' = IF svc_pc = "tmpopen" THEN "target" ELSE svc_h
            /\ IF cl_phase = "mark"
               THEN /\ cl_pc' = "engine"
                    /\ qhist' = [qhist EXCEPT !.marked =
                                   IF LoadQueue(qTmp)["me"].status = "processing"
                                   THEN LoadQueue(qTmp)["me"].id ELSE 0]
               ELSE /\ cl_pc' = "poll"
                    /\ qhist' = [qhist EXCEPT !.popped = TRUE,
                                   !.live["me"] = IF @ = qhist.taken THEN 0 ELSE @]
       ELSE /\ cl_pc' = "poll"
            /\ qhist' = [qhist EXCEPT !.failed = @ \cup {"client"}]
            /\ UNCHANGED <<qFile, qTmp, svc_h>>
    /\ UNCHANGED <<upVars, dlVars, spVars, rsVars, poolVars, svc_pc, svc_db, cl_phase, tasks_db, cl_h,
                   next_id, invoked>>

\* tasks_db.pop(my_user_id, None), then the second save
PopMyTask(db) == [db EXCEPT !["me"] = NoTask]

\* uploader_function(...) is called and returns True or False.
ClEngineReturns ==
    /\ cl_pc = "engine"
    /\ tasks_db["me"].task = "upload"
    /\ invoked' = [invoked EXCEPT ![tasks_db["me"].id] = @ + 1]
    /\ tasks_db' = PopMyTask(tasks_db)
    /\ cl_phase' = "pop"
    /\ cl_pc' = "save"
    /\ UNCHANGED <<upVars, dlVars, spVars, rsVars, poolVars, qFile, qTmp, svc_pc, svc_db, svc_h, cl_h, next_id, qhist>>

\* downloader_function(user_bot_token, file_info, download_path): three
\* arguments for perform_download(user_bot_token, file_info), a TypeError that
\* reaches except Exception of the loop.
ClEngineRaises ==
    /\ cl_pc = "engine"
    /\ tasks_db["me"].task = "download"
    /\ invoked' = [invoked EXCEPT ![tasks_db["me"].id] = @ + 1]
    /\ cl_pc' = "poll"
    /\ UNCHANGED <<upVars, dlVars, spVars, rsVars, poolVars, qFile, qTmp, svc_pc, svc_db, svc_h, cl_phase, tasks_db,
                   cl_h, next_id, qhist>>

\* No engine call: the file dialog was cancelled, or no download_path is set
\* or the file is not in the user's files db.
ClEngineSkipped ==
    /\ cl_pc = "engine"
    /\ tasks_db' = PopMyTask(tasks_db)
    /\ cl_phase' = "pop"
    /\ cl_pc' = "save"
    /\ UNCHANGED <<upVars, dlVars, spVars, rsVars, poolVars, qFile, qTmp, svc_pc, svc_db, svc_h, cl_h, next_id,
                   invoked, qhist>>

InitQueue ==
    /\ task = "none"
    /\ UpIdle
    /\ DlIdle
    /\ SpIdle
    /\ AuxIdle

NextClient ==
    \/ ClPoll \/ ClSaveOpen \/ ClSaveWrite \/ ClSaveMove
    \/ ClEngineReturns \/ ClEngineRaises \/ ClEngineSkipped

NextQueue ==
    \/ SvcCommand \/ SvcSaveOpen \/ SvcSaveWrite \/ SvcSaveMove
    \/ ClPoll \/ ClSaveOpen \/ ClSaveWrite \/ ClSaveMove
    \/ ClEngineReturns \/ ClEngineRaises \/ ClEngineSkipped

SpecQueue == InitQueue /\ [][NextQueue]_vars

\* The client's loop keeps running; the bot acts when users send commands.
SpecQueueLive == InitQueue /\ [][NextQueue]_vars /\ WF_vars(NextClient)

\* ---- /reset: each message is handled by its own call of handle_reset;
\* a call that asked for confirmation sleeps 60 seconds and then clears the
\* state if it is (still or again) awaiting confirmation.

\* if user_states.get(user_id) == 'awaiting_reset_confirmation' after the sleep
ExpiryClears(state, since, woke) == state = "awaiting"

\* /reset while a confirmation is pending: the state is popped and the user's
\* data is deleted.
ResetConfirm ==
    /\ user_state = "awaiting"
    /\ user_state' = "none"
    /\ pending_since' = -1
    /\ rhist' = [rhist EXCEPT !.deleted = 1,
                             !.unconfirmed = @ \/ pending_since = -1]
    /\ UNCHANGED <<upVars, dlVars, spVars, poolVars, qVars, now, sleepers>>

\* /reset while none is pending: warning, state set, time.sleep(60) begins.
ResetWarn ==
    /\ user_state # "awaiting"
    /\ now + RESET_WINDOW <= MaxTime
    /\ user_state' = "awaiting"
    /\ pending_since' = now
    /\ sleepers' = sleepers \cup {now + RESET_WINDOW}
    /\ UNCHANGED <<upVars, dlVars, spVars, poolVars, qVars, now, rhist>>

\* A handler's time.sleep(60) returns.
ResetExpire ==
    /\ \E w \in sleepers :
        /\ w <= now
        /\ sleepers' = sleepers \ {w}
        /\ IF ExpiryClears(user_state, pending_since, now)
           THEN /\ user_state' = "none"
                /\ pending_since' = -1
                /\ rhist' = [rhist EXCEPT !.early =
                               @ \/ now < pending_since + RESET_WINDOW]
           ELSE UNCHANGED <<user_state, pending_since, rhist>>
    /\ UNCHANGED <<upVars, dlVars, spVars, poolVars, qVars, now>>

\* Time passes; a handler whose sleep is over runs before the clock moves on.
ResetTick ==
    /\ now < MaxTime
    /\ \A w \in sleepers : now < w
    /\ now' = now + TickLen
    /\ UNCHANGED <<upVars, dlVars, spVars, poolVars, qVars, user_state, sleepers, pending_since, rhist>>

InitReset ==
    /\ task = "none"
    /\ UpIdle
    /\ DlIdle
    /\ SpIdle
    /\ AuxIdle

NextReset == ResetConfirm \/ ResetWarn \/ ResetExpire \/ ResetTick

SpecReset == InitReset /\ [][NextReset]_vars

\* ------------------------------------------------------------------ claims
\* The manifest entry a load of the manifest file returns.
Manifest == LoadDb(dbFile).messages
TotalParts == Ceil(fileSize, ChunkSize)
\* m holds at most TotalParts locators and its j-th one (0-based) is of part j.
IsPrefix(m) ==
    /\ Len(m) <= TotalParts
    /\ \A j \in 1..Len(m) : m[j].part = j - 1

\* C1: in every reachable state of an upload job, of either uploader, the
\* persisted manifest entry is a gap-free prefix: at most total_parts locators,
\* the j-th one a locator the transport returned for part j.
C1_ManifestIsPrefix == IsPrefix(Manifest)

\* C2: a job that found k locators on record, 0 < k < total_parts, calls the
\* transport only for the parts k..total_parts-1, in increasing order, and the k
\* locators stay unchanged at the front of the manifest, in memory and in every
\* document the manifest file holds.
C2_ResumeIdempotence ==
    resume_prefix # << >> =>
        LET k == Len(resume_prefix)
        IN /\ \A n \in 1..Len(calls) : k <= calls[n] /\ calls[n] < TotalParts
           /\ \A n \in 1..(Len(calls) - 1) : calls[n] < calls[n + 1]
           /\ pc # "idle" => SubSeq(uploaded_message_info, 1, k) = resume_prefix
           /\ dbFile.kind = "doc" => SubSeq(dbFile.messages, 1, k) = resume_prefix

\* C2 witness: a job resumed with one locator on record, transported the parts
\* 1 and 2 and returned success.
C2_Witness ==
    /\ Len(resume_prefix) = 1
    /\ calls = <<1, 2>>
    /\ pc = "done"
    /\ result = "true"

\* C3: from one persisted state to the next, the number of locators in the
\* persisted manifest entry never decreases, across runs, crashes and restarts.
C3_ManifestNeverRegresses ==
    [][Len(LoadDb(dbFile').messages) >= Len(LoadDb(dbFile).messages)]_vars

\* C4: when a part's worker returned failure, perform_download returns failure,
\* the joiner is not invoked, the destination holds what it held before the job
\* (no output file when there was none), and the temporary directory is gone.
C4_AllOrNothing ==
    (dl_pc = "done" /\ \E p \in Parts : wstate[p] = "none") =>
        /\ dl_result = "false"
        /\ ~joinCalled
        /\ outFile = outBefore
        /\ ~outBefore.exists => ~outFile.exists
        /\ ~tempDir
        /\ partFiles = {}

\* C4 witness: a job of two parts over, one worker returned failure and the
\* other a path, at an empty destination.
C4_Witness ==
    /\ dl_pc = "done"
    /\ messages = 2
    /\ \E p, q \in Parts : wstate[p] = "none" /\ wstate[q] = "ok"
    /\ ~outBefore.exists

\* C5: a manifest with fewer locators than total_parts makes perform_download
\* return failure before any worker is dispatched, and never yields an output
\* file.
C5_IncompleteManifestRejected ==
    messages < dl_total_parts =>
        /\ Dispatched = {}
        /\ ~tempDir
        /\ ~joinCalled
        /\ outFile = outBefore
        /\ dl_result = "false"

\* C6: whatever the completion order of the workers, when all parts succeed the
\* joiner receives the part files in increasing part-index order 0,1,...,N-1 and
\* the output is the concatenation of part 0, part 1, ..., part N-1.
C6_JoinInIndexOrder ==
    /\ joinCalled => joined = [n \in 1..messages |-> n - 1]
    /\ dl_result = "true" =>
         /\ outFile.exists
         /\ outFile.content = [n \in 1..messages |-> PartContent(n - 1)]

\* C6 witness: a successful job whose workers completed out of index order.
C6_Witness ==
    /\ dl_result = "true"
    /\ messages = 2
    /\ results = <<1, 0>>

\* C7: once the temporary parts directory was created, it does not exist when
\* the job has returned, on every exit path.
C7_TempDirRemoved ==
    (dl_pc = "done" /\ messages > 0) => (~tempDir /\ partFiles = {})

\* C7 witness: the job returned after a worker raised while another worker had
\* written its part file.
C7_Witness ==
    /\ dl_pc = "done"
    /\ \E p, q \in Parts : wstate[p] = "raised" /\ wstate[q] = "ok"

\* C8: at every point, also in the middle of a save, a load of the manifest
\* file returns the complete content from before the save or the complete new
\* content.
C8_SaveIsCrashAtomic ==
    /\ dbFile.kind # "partial"
    /\ LoadDb(dbFile) \in {save_prev, save_new}

\* C9: when perform_upload returns success for a non-empty source file, the
\* persisted manifest entry records exactly total_parts locators, one per part
\* index in index order.
C9_SuccessMeansComplete ==
    (pc = "done" /\ result = "true" /\ fileSize > 0) =>
        /\ Len(Manifest) = TotalParts
        /\ IsPrefix(Manifest)

\* C10: when every attempt allowed for part p failed, the job returns failure,
\* no locator of this run is recorded for part p, and no part with a greater
\* index is transported in the run.
C10_ExhaustionAborts ==
    \A p \in exhausted :
        /\ pc = "done" => result = "false"
        /\ \A n \in 1..Len(uploaded_message_info) :
             uploaded_message_info[n] # Locator(p, run)
        /\ \A n \in 1..Len(calls) : calls[n] <= p

\* C11: for every source file content F, joining the parts split_file produced,
\* in the returned order, yields exactly F.
C11_RoundTrip == sp_pc = "joined" => sp_out = src

\* C11 witness: a file one byte over a multiple of the chunk size was split
\* into three parts and joined.
C11_Witness ==
    /\ sp_pc = "joined"
    /\ Len(src) = 2 * ChunkSize + 1
    /\ Len(parts_paths) = 3

\* C12: split_file returns total_parts = ceil(s/c), 0 for s = 0, and exactly
\* total_parts paths; every part but the last holds c bytes, the last 1..c.
C12_PartCountAndSizes ==
    sp_pc \in {"split_done", "joined"} =>
        /\ sp_total * ChunkSize >= Len(src)
        /\ Len(src) > 0 => (sp_total - 1) * ChunkSize < Len(src)
        /\ Len(src) = 0 => sp_total = 0
        /\ Len(parts_paths) = sp_total
        /\ \A n \in 1..(Len(parts_paths) - 1) : Len(parts_paths[n]) = ChunkSize
        /\ parts_paths # << >> =>
             /\ 1 <= Len(parts_paths[Len(parts_paths)])
             /\ Len(parts_paths[Len(parts_paths)]) <= ChunkSize

\* C12 witness: a file of exactly two chunks was split.
C12_Witness ==
    /\ sp_pc = "split_done"
    /\ Len(src) = 2 * ChunkSize
    /\ Len(parts_paths) = 2

\* C13: uploading an empty source file returns success, makes no transport
\* call and leaves the persisted manifest store as it was.
C13_EmptyFileNoOp ==
    (pc = "done" /\ fileExists /\ fileSize = 0) =>
        /\ result = "true"
        /\ calls = << >>
        /\ "save" \notin hist.events
        /\ <<dbFile, dbOther>> = hist.db_at_start

\* C13 witness: an empty file was uploaded by uploader_bot while the store
\* held entries of other files.
C13_Witness ==
    /\ pc = "done"
    /\ impl = "uploader_bot"
    /\ fileExists
    /\ fileSize = 0
    /\ dbFile = EmptyDb
    /\ dbOther = 1

\* C14: uploading a source path that does not exist returns failure without a
\* transport call, without splitting and without reading or writing the store.
C14_MissingSource ==
    (pc = "done" /\ ~fileExists) =>
        /\ result = "false"
        /\ calls = << >>
        /\ hist.events = {}
        /\ <<dbFile, dbOther>> = hist.db_at_start

\* C14 witness: a second upload of a missing path returned while the store
\* held entries of other files.
C14_Witness ==
    /\ pc = "done"
    /\ ~fileExists
    /\ run = 2
    /\ dbOther = 1

C16_SaveBeforeNextPart ==
    (pc \in {"loop", "acked", "tmpopen", "tmpwritten", "done"} /\ calls # << >>) =>
        LET p == calls[Len(calls)]
        IN /\ \A q \in start_part_index..(p - 1) :
                /\ Len(Manifest) > q
                /\ Manifest[q + 1] = Locator(q, run)
           /\ \A n \in 1..(Len(calls) - 1) : calls[n + 1] = calls[n] + 1
           /\ pc \in {"acked", "tmpopen", "tmpwritten"} => i = p

\* C16 witness: part 2 was acknowledged in a job that started from part 0.
C16_Witness ==
    /\ pc = "acked"
    /\ i = 2
    /\ start_part_index = 0
    /\ Len(calls) = 3

\* C17: after a crash between the acknowledgement of part i and the save of
\* its locator, the restarted job transports part i first, transports no part
\* below the number of locators that were persisted, and on success leaves
\* one locator per part index.
C17_CrashBetweenAckAndSave ==
    hist.restarted =>
        /\ calls # << >> => calls[1] = hist.crash_part
        /\ \A n \in 1..Len(calls) : calls[n] >= hist.crash_persisted
        /\ (pc = "done" /\ result = "true") =>
               /\ Len(Manifest) = total_parts
               /\ \A n \in 1..Len(Manifest) : Manifest[n].part = n - 1

\* C18: a job that failed on an error other than a rate limit failed at the
\* 10th attempt for the part: such errors are retried up to the ceiling.
C18_OtherErrorsRetriedToCeiling ==
    (pc = "done" /\ result = "false" /\ hist.last_error \in {"api", "other"}) =>
        attempt = UPLOAD_RETRIES - 1

\* C19: after a rate-limit answer with retry_after = N for part i no call is
\* made for N time units, the next call is for part i again, and once it
\* succeeds part i is recorded once and the job goes on to part i+1.
C19_RateLimitWaitsThenSamePart ==
    /\ pc = "loop" => hist.slept >= hist.owed
    /\ (pc = "loop" /\ hist.last_error = "rate" /\ i < total_parts) => i = hist.err_part
    /\ (pc \in {"loop", "done"} /\ hist.last_error = "none" /\ hist.err_part >= 0) =>
           /\ i = hist.err_part + 1
           /\ uploaded_message_info[Len(uploaded_message_info)] = Locator(hist.err_part, run)
           /\ \A n \in 1..(Len(uploaded_message_info) - 1) :
                uploaded_message_info[n].part # hist.err_part

\* C20: what another party wrote to the manifest file while an upload job is
\* running (entries of other filenames, or the removal of the file by /reset)
\* is still there after the job's saves.
C20_ExternalUpdatesSurvive == ~hist.raced => dbOther = ext_other

\* C21: at every moment of a download at most 35 part workers execute, for
\* any number of locators, and each locator is submitted to exactly one
\* worker, with its own part index.
C21_BoundedParallelism ==
    /\ pl_running <= CONCURRENT_DOWNLOADS
    /\ \A k \in 1..Len(future_to_part) : future_to_part[k] = k - 1
    /\ pl_pc = "closed" =>
         \A q \in 0..(pl_n - 1) :
            Cardinality({k \in 1..Len(future_to_part) : future_to_part[k] = q}) = 1

\* C21 witness: 37 locators were submitted, 35 calls execute and two wait.
C21_Witness ==
    /\ pl_n = CONCURRENT_DOWNLOADS + 2
    /\ Len(future_to_part) = pl_n
    /\ pl_running = CONCURRENT_DOWNLOADS
    /\ pl_started = CONCURRENT_DOWNLOADS

\* C22: every dispatched worker has finished before the job result is
\* decided, the joiner is called or the temporary directory is removed, also
\* when a worker raised an unexpected exception.
C22_WaitsForAllWorkers ==
    (dl_pc = "done" \/ joinCalled \/ (messages > 0 /\ ~tempDir)) =>
        \A p \in Dispatched : Finished(p)

\* C22 witness: worker 0 raised and the job returned without collecting
\* worker 1, which had given up after its last attempt.
C22_Witness ==
    /\ dl_pc = "done"
    /\ wstate[0] = "raised"
    /\ wstate[1] = "none"
    /\ wattempt[1] = DOWNLOAD_RETRIES - 1
    /\ collected = {0}

\* C23: a worker makes at most 5 fetch attempts; it returns success at the
\* first attempt that succeeds, failure after the 5th network failure, and
\* failure at once, without a further attempt or sleep, when the locator is
\* answered as permanently invalid.
C23_PerPartRetry ==
    \A p \in Parts :
        /\ wk[p].calls <= DOWNLOAD_RETRIES
        /\ wstate[p] = "ok" =>
             (wk[p].last = "ok" /\ Len(wk[p].sleeps) = wk[p].calls - 1)
        /\ wk[p].last = "ok" => wstate[p] = "ok"
        /\ (wstate[p] = "none" /\ wk[p].last = "error") => wk[p].calls = DOWNLOAD_RETRIES
        /\ (wk[p].last = "error" /\ wk[p].calls = DOWNLOAD_RETRIES) => wstate[p] = "none"
        /\ wk[p].last = "wrong_id" =>
             (wstate[p] = "none" /\ Len(wk[p].sleeps) = wk[p].calls - 1)

\* C23 witness: worker 0 gave up after five failed requests and worker 1 was
\* told at its third request that its locator is invalid.
C23_Witness ==
    /\ wstate[0] = "none"
    /\ wk[0].last = "error"
    /\ wk[0].calls = DOWNLOAD_RETRIES
    /\ wk[1].last = "wrong_id"
    /\ wk[1].calls = 3

\* C24: the sleep after failed attempt n (n = 1..4) is 3 * 2^(n-1) seconds, no
\* sleep follows the last failed attempt, and the jitter sleep is done once per
\* worker, before its first attempt.
C24_BackoffSchedule ==
    \A p \in Parts :
        /\ \A n \in 1..Len(wk[p].sleeps) : wk[p].sleeps[n] = 3 * 2 ^ (n - 1)
        /\ Len(wk[p].sleeps) <= 4
        /\ wk[p].last = "error" =>
             Len(wk[p].sleeps) = IF wk[p].calls = 5 THEN 4 ELSE wk[p].calls
        /\ wk[p].jitter = IF wstate[p] \in {"idle", "queued"} THEN 0 ELSE 1
        /\ wk[p].calls > 0 => wk[p].jitter = 1

\* C24 witness: worker 1 slept 3, 6, 12 and 24 seconds and gave up.
C24_Witness ==
    /\ wstate[1] = "none"
    /\ wk[1].sleeps = <<3, 6, 12, 24>>
    /\ wk[1].calls = 5

\* C25: every upload job and every download job that was started eventually
\* returns a result, whatever the transport answers.
C25_Termination ==
    /\ (task = "upload" /\ pc \in {"loop", "acked", "tmpopen", "tmpwritten"}) ~> (pc = "done")
    /\ (dl_pc \in {"collect", "unwinding"}) ~> (dl_pc = "done")

\* C25 witness: an upload job returned after every attempt for part 1 was
\* answered with a rate limit.
C25_Witness ==
    /\ task = "upload"
    /\ pc = "done"
    /\ exhausted = {1}
    /\ hist.last_error = "rate"
    /\ result = "false"

\* The entry of this client's user in the task queue file.
MyEntry == LoadQueue(qFile)["me"]

\* C26: the engine is invoked at most once per descriptor, only for a
\* descriptor picked up in status pending, and only after the client's save of
\* status processing for it has completed.
C26_OncePerDescriptor ==
    /\ \A k \in Descriptors : invoked[k] <= 1
    /\ qhist.picked \in {"none", "pending"}
    /\ cl_pc = "engine" => qhist.marked = tasks_db["me"].id

\* C27: a task that is in status processing in the queue is eventually
\* removed from it, whatever the outcome of the job.
C27_ProcessingIsRemoved ==
    (MyEntry.status = "processing") ~> (MyEntry.status # "processing")

\* C28: right after the client's save that removes its finished task, every
\* descriptor the bot has written and the client has not finished is in the
\* queue file.
C28_NoLostTask ==
    qhist.popped =>
        \A u \in Users :
            qhist.live[u] # 0 => LoadQueue(qFile)[u].id = qhist.live[u]

\* C29: the task queue file never holds a truncated document, and no save of
\* the bot or the client fails because the temporary file is gone.
C29_ConcurrentSavers ==
    /\ qFile.kind # "partial"
    /\ qhist.failed = {}

\* C30: data is deleted only by a /reset received while a confirmation is
\* pending, and a pending confirmation is cleared by an expiry timer only
\* when 60 seconds have passed since the /reset that created it.
C30_ResetWindow ==
    /\ ~rhist.unconfirmed
    /\ ~rhist.early

====
